---- MODULE Spec2Model ----
(***************************************************************************)
(* Matching and active-conversation subsystem of the "Mutual" dating app.  *)
(*                                                                         *)
(* The store is the Supabase/PostgreSQL database of supabase/schema.sql    *)
(* (tables swipes, matches, messages and the column                        *)
(* profiles.active_match_id, with their constraints, the trigger           *)
(* check_and_create_match and the row level security policies).  The       *)
(* clients are the React hooks of src/hooks (useMatches, useChat,          *)
(* useDiscovery, useLikes) and the AuthContext, one browser session per    *)
(* user.  A hook function is async:                                        *)
(* every awaited database request is one step of the call, and calls of    *)
(* different sessions, or of two UI surfaces of one session, interleave    *)
(* between their requests.                                                 *)
(***************************************************************************)
EXTENDS Integers, Sequences, FiniteSets, TLC

\* The profiles (auth users).  Ids are UUIDs; only their total order matters.
Users == {1, 2, 3}

\* SQL NULL / JavaScript null, where a match id is expected (ids are positive).
NULL == 0

\* Handler calls (activateMatch / endMatch) that may be in flight at once.
MaxCalls == 2

\* Swipe insert transactions that may be open at once.
MaxTx == 2

\* Message rows the model lets the messages table hold.
MaxMessages == 2

\* Characters a typed message may have.
MaxContentLen == 1

\* Clock readings are 1..MaxTime.
MaxTime == 2

\* Characters a draft in the chat input may have.
MaxDraftLen == 3

\* fetchMatches calls that may be triggered and not yet started.
MaxTriggered == 2

VARIABLES
  swipes,           \* committed rows of public.swipes
  matches,          \* committed rows of public.matches
  active_match_id,  \* profiles.active_match_id, per profile id
  messages,         \* rows of public.messages, in insertion order
  txs,              \* swipe calls in flight (their insert transactions)
  profile,          \* AuthContext `profile` state of each session (its active_match_id)
  calls,            \* activateMatch / endMatch / fetchProfiles calls that have not returned yet
  chat,             \* useChat hook state of each session
  hist              \* the last call a specification keeps track of: what it found or returned

vars == <<swipes, matches, active_match_id, messages, txs, profile, calls, chat, hist>>

vars_but_hist == <<swipes, matches, active_match_id, messages, txs, profile, calls, chat>>

-----------------------------------------------------------------------------
(* The store: schema.sql                                                   *)

\* The reverse order on UUIDs.
uuid_gt(a, b) == a > b

\* The order on UUIDs that canonicalises a pair of users.
uuid_lt(a, b) == a < b

\* CONSTRAINT ordered_users CHECK (user1_id < user2_id)
ordered_users(row) == uuid_lt(row.user1_id, row.user2_id)

\* CONSTRAINT unique_match UNIQUE(user1_id, user2_id): the rows `row` conflicts with.
unique_match(ms, row) ==
  {m \in ms : m.user1_id = row.user1_id /\ m.user2_id = row.user2_id}

\* The write-once rule switched off: no row ever conflicts.
swipes_no_unique(sw, row) == {}

\* UNIQUE(swiper_id, swiped_id) of public.swipes.
swipes_unique(sw, row) ==
  {s \in sw : s.swiper_id = row.swiper_id /\ s.swiped_id = row.swiped_id}

\* uuid_generate_v4(): an id no row of the table has.
NewId(used) == CHOOSE i \in 1..(Cardinality(used) + 1) : i \notin used

\* POLICY "Users can view their own matches" (SELECT).
matches_select_policy(uid, m) == uid = m.user1_id \/ uid = m.user2_id

\* POLICY "Users can update their own matches" (UPDATE, USING and WITH CHECK).
matches_update_policy(uid, m) == uid = m.user1_id \/ uid = m.user2_id

\* POLICY "Users can update their own profile".
profiles_update_policy(uid, id) == uid = id

\* POLICY "Users can send messages in their matches" (INSERT WITH CHECK).
messages_insert_policy(uid, row, ms) ==
  /\ uid = row.sender_id
  /\ \E m \in ms : /\ m.id = row.match_id
                   /\ (m.user1_id = uid \/ m.user2_id = uid)

\* fk_active_match: profiles.active_match_id REFERENCES matches(id).
fk_active_match(ms, id) == id = NULL \/ \E m \in ms : m.id = id

\* An update of the pointer that is not restricted to one row.
set_every_active_match_id(uid, id) == [v \in Users |-> id]

\* supabase.from('profiles').update({ active_match_id: id }).eq('id', uid):
\* the pointers after the update of the row of uid.
set_active_match_id(uid, id) == [active_match_id EXCEPT ![uid] = id]

\* supabase.from('matches').update({ status }).eq('id', id) as user uid: the
\* rows the UPDATE policy hides are skipped silently (no row, no error).
update_match_status(ms, uid, id, st) ==
  {IF m.id = id /\ matches_update_policy(uid, m) THEN [m EXCEPT !.status = st] ELSE m
     : m \in ms}

MatchIds == {m.id : m \in matches}

MatchById(id) == CHOOSE m \in matches : m.id = id

Participants(m) == {m.user1_id, m.user2_id}

\* The match ids a user's match list shows (fetchMatches, filtered by the SELECT policy).
OwnMatchIds(u) == {m.id : m \in {x \in matches : matches_select_policy(u, x)}}

-----------------------------------------------------------------------------
(* Swipe inserts and the trigger on_swipe_check_match                      *)

Like(a, b) == [swiper_id |-> a, swiped_id |-> b, direction |-> "like"]

Swipe(a, b, d) == [swiper_id |-> a, swiped_id |-> b, direction |-> d]

Match(id, a, b, st) == [id |-> id, user1_id |-> a, user2_id |-> b, status |-> st]

\* No row: the trigger inserted nothing.
NoRow == [id |-> NULL]

\* The statement raised: the transaction is rolled back.
Abort == [aborted |-> TRUE]

\* POLICY "Users can create swipes as themselves" (INSERT WITH CHECK).
swipes_insert_policy(uid, row) == uid = row.swiper_id

\* A trigger that inserts a match for every like, reciprocated or not.
create_match_on_like(new, visible, ms, id) ==
  IF new.direction # "like" THEN NoRow
  ELSE LET row == IF uuid_lt(new.swiper_id, new.swiped_id)
                    THEN Match(id, new.swiper_id, new.swiped_id, "pending")
                    ELSE Match(id, new.swiped_id, new.swiper_id, "pending")
       IN  IF ~ordered_users(row) THEN Abort
           ELSE IF unique_match(ms, row) # {} THEN NoRow
           ELSE row

\* check_and_create_match(), AFTER INSERT FOR EACH ROW on swipes, for the row
\* NEW.  `visible` are the swipes its SELECT sees (the committed rows and the
\* transaction's own), `ms` the match rows its INSERT ... ON CONFLICT DO NOTHING
\* sees.  The result is the match row it inserts, NoRow when it inserts none, or
\* Abort when the row fails the CHECK of the matches table, which raises and
\* rolls the swipe insert back.
check_and_create_match(new, visible, ms, id) ==
  IF new.direction # "like" THEN NoRow
  ELSE LET mutual_like_exists == Like(new.swiped_id, new.swiper_id) \in visible
           row == IF uuid_lt(new.swiper_id, new.swiped_id)
                    THEN Match(id, new.swiper_id, new.swiped_id, "pending")
                    ELSE Match(id, new.swiped_id, new.swiper_id, "pending")
       IN  IF ~mutual_like_exists THEN NoRow
           ELSE IF ~ordered_users(row) THEN Abort
           ELSE IF unique_match(ms, row) # {} THEN NoRow
           ELSE row

\* The hooks with a swipe(): useDiscovery and useLikes.
Hooks == {"discovery", "likes"}

\* One call of a hook's swipe(): the row it inserts, the match row the trigger
\* inserted for it, where the call stands ("open": the insert's transaction has
\* not committed; "select": the follow-up query is pending; "done": about to
\* return), and what it returns.
SwipeCall(hook, row, match, pc, matched, error) ==
  [hook |-> hook, row |-> row, match |-> match, pc |-> pc,
   matched |-> matched, error |-> error]

\* The swipe inserts whose transaction is open.
Open == {t \in txs : t.pc = "open"}

\* The match rows open transactions have inserted and not committed yet.
Uncommitted == {t.match : t \in {x \in Open : x.match # NoRow}}

\* swipe(direction) of useDiscovery ("discovery") and of useLikes ("likes") on
\* the target the hook shows, up to the end of
\* supabase.from('swipes').insert({ swiper_id: user.id, swiped_id, direction }).
\* The statement runs in a transaction of its own, the trigger inside it.  Under
\* READ COMMITTED the trigger's SELECT sees the rows committed so far and the
\* row just inserted; an insert whose key an open transaction has inserted
\* waits for that transaction.  A unique violation, a refused policy or a
\* raising trigger is swipeError: the call returns { error }.
swipe(hook, u, target, direction) ==
  LET new == Swipe(u, target, direction)
      id == NewId(MatchIds \cup {m.id : m \in Uncommitted})
      made == check_and_create_match(new, swipes \cup {new}, matches, id)
      failed == \/ ~swipes_insert_policy(u, new)
                \/ swipes_unique(swipes, new) # {}
                \/ made = Abort
  IN  /\ Cardinality(txs) < MaxTx
      /\ swipes_unique({t.row : t \in Open}, new) = {}
      /\ IF failed \/ made = NoRow THEN TRUE ELSE unique_match(Uncommitted, made) = {}
      /\ txs' = txs \cup
           {IF failed THEN SwipeCall(hook, new, NoRow, "done", FALSE, TRUE)
                      ELSE SwipeCall(hook, new, made, "open", FALSE, FALSE)}
      /\ UNCHANGED <<swipes, matches, active_match_id, messages, profile, calls, chat>>

\* The transaction of a swipe insert commits: its rows become visible.  A like
\* goes on to its follow-up query, a pass returns matched = false.
SwipeCommit(t) ==
  /\ t.pc = "open"
  /\ swipes' = swipes \cup {t.row}
  /\ matches' = IF t.match = NoRow THEN matches ELSE matches \cup {t.match}
  /\ txs' = (txs \ {t}) \cup
       {[t EXCEPT !.pc = IF t.hook \in Hooks /\ t.row.direction = "like"
                          THEN "select" ELSE "done"]}
  /\ UNCHANGED <<active_match_id, messages, profile, calls, chat>>

\* The query after a like.  useDiscovery: select the other user's like of the
\* caller, matched = !!mutualLike.  useLikes: select the match row of the
\* ordered pair, matched = !!matchData.
SwipeSelect(t) ==
  LET u == t.row.swiper_id
      target == t.row.swiped_id
      mutualLike == Like(target, u) \in swipes
      matchData == {m \in matches :
                      /\ matches_select_policy(u, m)
                      /\ m.user1_id = (IF uuid_lt(u, target) THEN u ELSE target)
                      /\ m.user2_id = (IF uuid_lt(u, target) THEN target ELSE u)}
  IN  /\ t.pc = "select"
      /\ txs' = (txs \ {t}) \cup
           {[t EXCEPT !.pc = "done",
                      !.matched = IF t.hook = "discovery" THEN mutualLike
                                  ELSE matchData # {}]}
      /\ UNCHANGED <<swipes, matches, active_match_id, messages, profile, calls, chat>>

\* return { matched, ... } / return { error }
SwipeReturn(t) ==
  /\ t.pc = "done"
  /\ txs' = txs \ {t}
  /\ UNCHANGED <<swipes, matches, active_match_id, messages, profile, calls, chat>>

\* A session's swipe hook: the list it fetched, its currentIndex state, and
\* the currentIndex of the last render, which the swipe callback closes over.
Deck(hook, u, list, currentIndex, rendered) ==
  <<[hook |-> hook, user |-> u, list |-> list, currentIndex |-> currentIndex,
     rendered |-> rendered]>>

\* Advances whatever the call returns.
AdvanceAlways(currentIndex, t) == currentIndex + 1

\* setCurrentIndex(prev => prev + 1) is reached only past `if (swipeError)
\* throw swipeError`; the catch block returns { error } and leaves the index.
Advance(currentIndex, t) == IF t.error THEN currentIndex ELSE currentIndex + 1

-----------------------------------------------------------------------------
(* AuthContext.jsx: the session's cached profile                           *)

\* fetchProfile + setProfile (initAuth, onAuthStateChange, refreshProfile): the
\* session reloads its profile row.  Nothing in useMatches calls it.
refreshProfile(u) ==
  /\ profile' = [profile EXCEPT ![u] = active_match_id[u]]
  /\ UNCHANGED <<swipes, matches, active_match_id, messages, txs, calls, chat>>

-----------------------------------------------------------------------------
(* useMatches.js: activateMatch and endMatch                               *)

\* One call: the hook function, its arguments, the active_match_id its closure
\* holds, where it stands, what it returns, and whether another call of the same
\* session ran while it did.
Call(op, u, m, old, pc, result, overlap) ==
  [op |-> op, user |-> u, matchId |-> m, old |-> old, pc |-> pc, result |-> result,
   overlap |-> overlap]

Running(u) == {c \in calls : c.user = u /\ c.pc # "done"}

\* The calls once another call of session u has started beside them.
Beside(u) == {IF c \in Running(u) THEN [c EXCEPT !.overlap = TRUE] ELSE c : c \in calls}

\* Call c moves on to c2.
Goto(c, c2) == calls' = (calls \ {c}) \cup {c2}

\* `profile?.active_match_id && profile.active_match_id !== matchId`
NeedsDemote(old, m) == old # NULL /\ old # m

\* activateMatch(matchId) is called in u's session.  The callback closes over
\* profile?.active_match_id of the session (useCallback deps).
activateMatch(u, m) ==
  /\ Cardinality(calls) < MaxCalls
  /\ calls' = Beside(u) \cup
       {Call("activate", u, m, profile[u],
             IF NeedsDemote(profile[u], m) THEN "demote" ELSE "promote",
             "none", Running(u) # {})}
  /\ UNCHANGED <<swipes, matches, active_match_id, messages, txs, profile, chat>>

\* "First, deactivate any currently active match": the result is not inspected.
ActivateDemote(c) ==
  /\ c.pc = "demote"
  /\ matches' = update_match_status(matches, c.user, c.old, "pending")
  /\ Goto(c, [c EXCEPT !.pc = "promote"])
  /\ UNCHANGED <<swipes, active_match_id, messages, txs, profile, chat>>

\* "Activate the new match"
ActivatePromote(c) ==
  /\ c.pc = "promote"
  /\ matches' = update_match_status(matches, c.user, c.matchId, "active")
  /\ Goto(c, [c EXCEPT !.pc = "pointer"])
  /\ UNCHANGED <<swipes, active_match_id, messages, txs, profile, chat>>

\* "Update user's active_match_id", then fetchMatches (reads only) and the return.
\* The update fails (profileError) when the foreign key has no such match.
ActivatePointer(c) ==
  /\ c.pc = "pointer"
  /\ IF profiles_update_policy(c.user, c.user) /\ fk_active_match(matches, c.matchId)
       THEN /\ active_match_id' = set_active_match_id(c.user, c.matchId)
            /\ Goto(c, [c EXCEPT !.pc = "done", !.result = "success"])
       ELSE /\ active_match_id' = active_match_id
            /\ Goto(c, [c EXCEPT !.pc = "done", !.result = "error"])
  /\ UNCHANGED <<swipes, matches, messages, txs, profile, chat>>

\* endMatch(matchId) is called in u's session.
endMatch(u, m) ==
  /\ Cardinality(calls) < MaxCalls
  /\ calls' = Beside(u) \cup
       {Call("end", u, m, profile[u], "end", "none", Running(u) # {})}
  /\ UNCHANGED <<swipes, matches, active_match_id, messages, txs, profile, chat>>

\* "Set match status to ended"; with no pointer to clear the call returns here.
EndUpdate(c) ==
  /\ c.pc = "end"
  /\ matches' = update_match_status(matches, c.user, c.matchId, "ended")
  /\ IF c.old = c.matchId
       THEN Goto(c, [c EXCEPT !.pc = "clear"])
       ELSE Goto(c, [c EXCEPT !.pc = "done", !.result = "success"])
  /\ UNCHANGED <<swipes, active_match_id, messages, txs, profile, chat>>

\* "Clear user's active_match_id if this was the active match"
EndClear(c) ==
  /\ c.pc = "clear"
  /\ active_match_id' = set_active_match_id(c.user, NULL)
  /\ Goto(c, [c EXCEPT !.pc = "done", !.result = "success"])
  /\ UNCHANGED <<swipes, matches, messages, txs, profile, chat>>

\* The awaiting caller (handleMatchClick, handleEndConversation) gets the result.
Return(c) ==
  /\ c.pc = "done"
  /\ calls' = calls \ {c}
  /\ UNCHANGED <<swipes, matches, active_match_id, messages, txs, profile, chat>>

\* The next database request of call c.
CallStep(c) ==
  \/ ActivateDemote(c)
  \/ ActivatePromote(c)
  \/ ActivatePointer(c)
  \/ EndUpdate(c)
  \/ EndClear(c)

-----------------------------------------------------------------------------
(* Deleting a profile row                                                  *)

\* POLICY "Users can delete their own profile" (DELETE).
profiles_delete_policy(uid, id) == uid = id

\* supabase.from('profiles').delete().eq('id', id) issued by user uid's
\* session.  A row the policy hides is skipped.  Deleting the row cascades
\* (ON DELETE CASCADE) to the swipes made by and on the profile, to its
\* matches and to their messages, and fk_active_match ... ON DELETE SET NULL
\* clears the pointers at the deleted matches.  The statement waits for open
\* transactions that have inserted rows referring to the profile.  The
\* session's next fetchProfile finds no row and inserts a fresh one
\* (AuthContext.jsx), so the profile is there again, with no active match.
delete_profile(uid, id) ==
  LET kept == {m \in matches : id \notin Participants(m)}
  IN  /\ \A t \in Open : id \notin {t.row.swiper_id, t.row.swiped_id}
      /\ IF profiles_delete_policy(uid, id)
           THEN /\ swipes' = {s \in swipes : s.swiper_id # id /\ s.swiped_id # id}
                /\ matches' = kept
                /\ messages' = SelectSeq(messages,
                     LAMBDA row : row.sender_id # id /\ row.match_id \in {m.id : m \in kept})
                /\ active_match_id' = [v \in Users |->
                     IF v = id \/ active_match_id[v] \notin {m.id : m \in kept}
                       THEN NULL ELSE active_match_id[v]]
           ELSE UNCHANGED <<swipes, matches, messages, active_match_id>>
      /\ UNCHANGED <<txs, profile, calls, chat>>

-----------------------------------------------------------------------------
(* useDiscovery: the discovery feed                                        *)

\* POLICY "Users can view their own swipes" and POLICY "Users can view likes
\* on their profile" (SELECT; permissive policies are OR-ed).
swipes_select_policy(uid, row) ==
  \/ uid = row.swiper_id
  \/ uid = row.swiped_id /\ row.direction = "like"

\* The ids the user has liked, passes left out.
LikedIds(u) ==
  {s.swiped_id : s \in {x \in swipes : /\ swipes_select_policy(u, x)
                                       /\ x.swiper_id = u
                                       /\ x.direction = "like"}}

\* supabase.from('swipes').select('swiped_id').eq('swiper_id', user.id),
\* then swipedData.map(s => s.swiped_id)
SwipedIds(u) ==
  {s.swiped_id : s \in {x \in swipes : /\ swipes_select_policy(u, x)
                                       /\ x.swiper_id = u}}

\* One call of fetchProfiles: the swipes of the user the store held when the
\* call began, the swipedIds it read, where it stands, and the profilesData it
\* passes to setProfiles.
Fetch(u, before, swipedIds, pc, profilesData) ==
  [op |-> "fetchProfiles", user |-> u, before |-> before, swipedIds |-> swipedIds,
   pc |-> pc, profilesData |-> profilesData]

\* fetchProfiles of u's session up to the end of its first query.
fetchProfiles(u) ==
  /\ Cardinality(calls) < MaxCalls
  /\ calls' = calls \cup
       {Fetch(u, {s \in swipes : s.swiper_id = u}, SwipedIds(u), "profiles", {})}
  /\ UNCHANGED <<swipes, matches, active_match_id, messages, txs, profile, chat>>

\* excludeIds = [user.id, ...swipedIds]; select('*').not('id', 'in', excludeIds)
\* .not('name', 'is', null).limit(20) on profiles, which every signed-in user
\* may read: every user here has completed the profile, and there are fewer
\* than 20.
FetchProfilesSelect(c) ==
  LET excludeIds == {c.user} \cup c.swipedIds
  IN  /\ c.op = "fetchProfiles"
      /\ c.pc = "profiles"
      /\ Goto(c, [c EXCEPT !.pc = "done", !.profilesData = Users \ excludeIds])
      /\ UNCHANGED <<swipes, matches, active_match_id, messages, txs, profile, chat>>

-----------------------------------------------------------------------------
(* useMatches.js: the match list and its subscription                      *)

\* What fetchMatches selects for user u: the rows with user1_id or user2_id
\* = u that the SELECT policy shows, here their id and status.
OwnRows(u) ==
  {[id |-> m.id, status |-> m.status] :
     m \in {x \in matches : matches_select_policy(u, x) /\ u \in Participants(x)}}

\* The useMatches hook of a session: its `matches` state and the number of
\* fetchMatches calls that have been triggered (by the mount effect or by an
\* event of the channel 'matches-changes') and have not started their query.
MatchList(u, list, triggered) ==
  <<[op |-> "useMatches", user |-> u, list |-> list, triggered |-> triggered]>>

\* One fetchMatches call: the rows its query returned and where it stands.
FetchMatches(u, data, pc) == [op |-> "fetchMatches", user |-> u, data |-> data, pc |-> pc]

\* The fetchMatches calls in flight.
Fetching == {c \in calls : c.op = "fetchMatches"}

\* The match row the next request of call c updates, if the UPDATE policy
\* lets the caller update it: such an update is what Realtime reports.
Updates(c) ==
  LET id == IF c.pc = "demote" THEN c.old
            ELSE IF c.pc \in {"promote", "end"} THEN c.matchId
            ELSE NULL
  IN  {m \in matches : m.id = id /\ matches_update_policy(c.user, m)}

\* The hook mounts in u's session: the effect calls fetchMatches and the
\* channel is subscribed.
useMatches(u) ==
  /\ hist = <<>>
  /\ hist' = MatchList(u, {}, 1)
  /\ UNCHANGED vars_but_hist

\* A step of an activateMatch / endMatch call; an UPDATE of a match of the
\* subscribed user makes Realtime deliver an event, whose handler calls
\* fetchMatches.
CallStepNotified(c) ==
  /\ hist # <<>> => hist[1].triggered < MaxTriggered
  /\ CallStep(c)
  /\ hist' = IF hist # <<>> /\ \E m \in Updates(c) : hist[1].user \in Participants(m)
               THEN [hist EXCEPT ![1].triggered = @ + 1]
               ELSE hist

\* A triggered fetchMatches runs its query on matches.
FetchMatchesSelect ==
  /\ hist # <<>>
  /\ hist[1].triggered > 0
  /\ Cardinality(Fetching) < MaxCalls
  /\ calls' = calls \cup
       {FetchMatches(hist[1].user, OwnRows(hist[1].user), "profiles")}
  /\ hist' = [hist EXCEPT ![1].triggered = @ - 1]
  /\ UNCHANGED <<swipes, matches, active_match_id, messages, txs, profile, chat>>

\* The Promise.all over the rows (profile, last message, unread count of each)
\* resolves and setMatches(matchesWithProfiles) writes what the call read.
FetchMatchesSet(c) ==
  /\ c.op = "fetchMatches"
  /\ hist # <<>>
  /\ calls' = calls \ {c}
  /\ hist' = [hist EXCEPT ![1].list = c.data]
  /\ UNCHANGED <<swipes, matches, active_match_id, messages, txs, profile, chat>>

-----------------------------------------------------------------------------
(* useChat.js: the chat hook of a session                                  *)

\* What a user can type: strings over a blank and a letter.
Contents == UNION {[1..n -> {" ", "h"}] : n \in 0..MaxContentLen}

RECURSIVE TrimStart(_)
TrimStart(str) ==
  IF str # <<>> /\ Head(str) = " " THEN TrimStart(Tail(str)) ELSE str

RECURSIVE TrimEnd(_)
TrimEnd(str) ==
  IF str # <<>> /\ str[Len(str)] = " " THEN TrimEnd(SubSeq(str, 1, Len(str) - 1)) ELSE str

\* A trim that leaves trailing blanks in place.
TrimStartOnly(str) == TrimStart(str)

\* String.prototype.trim
Trim(str) == TrimEnd(TrimStart(str))

\* Server and client clock readings.
Times == 1..MaxTime

\* A row of public.messages.
Message(id, m, u, content, read_at, created_at) ==
  [id |-> id, match_id |-> m, sender_id |-> u, content |-> content,
   read_at |-> read_at, created_at |-> created_at]

\* A policy that shows every message to every signed-in user.
messages_select_all(uid, row, ms) == TRUE

\* POLICY "Users can view messages in their matches" (SELECT).
messages_select_policy(uid, row, ms) ==
  \E m \in ms : m.id = row.match_id /\ (m.user1_id = uid \/ m.user2_id = uid)

\* POLICY "Users can update messages in their matches" (UPDATE).
messages_update_policy(uid, row, ms) ==
  \E m \in ms : m.id = row.match_id /\ (m.user1_id = uid \/ m.user2_id = uid)

\* The hook's state in a session: the matchId it was given, the status of the
\* `match` it holds ("none" while `match` is null), whether `error` is set, its
\* `messages` list, subscriptionRef.current (the match of the channel it
\* refers to), the channels of the hook that are subscribed, and the read_at
\* updates fetchMessages has built and not yet sent.
NoChat ==
  [matchId |-> NULL, status |-> "none", error |-> FALSE, list |-> <<>>, ref |-> NULL,
   live |-> {}, marks |-> {}]

\* The status of the stored match row, "none" when there is no such row.
StoredStatus(id) == IF id \in MatchIds THEN MatchById(id).status ELSE "none"

\* A cleanup that leaves the channel subscribed.
NoCleanup(h) == h

\* Cleanup of the subscription effect: subscriptionRef.current.unsubscribe().
Cleanup(h) == [h EXCEPT !.live = @ \ {h.ref}]

\* Body of the subscription effect: the channel messages:${matchId} is
\* subscribed and kept in subscriptionRef.current.
Subscribe(h, m) == [h EXCEPT !.matchId = m, !.live = @ \cup {m}, !.ref = m]

\* useChat(matchId) renders in u's session (route /chat/:matchId).  Mounting
\* starts from the initial state; a new matchId for a mounted hook keeps the
\* state it has.  In both cases the subscription effect runs: the cleanup of
\* the previous run, then its body.
useChat(u, m) ==
  /\ chat[u].matchId # m
  /\ chat' = [chat EXCEPT ![u] =
       IF chat[u].matchId = NULL
         THEN Subscribe([NoChat EXCEPT !.marks = chat[u].marks], m)
         ELSE Subscribe(Cleanup(chat[u]), m)]
  /\ UNCHANGED <<swipes, matches, active_match_id, messages, txs, profile, calls>>

\* The Chat page unmounts: the effect's cleanup runs, the state is dropped.  A
\* request already built by fetchMessages is still sent.
unmount(u) ==
  /\ chat[u].matchId # NULL
  /\ chat' = [chat EXCEPT ![u] =
       [NoChat EXCEPT !.live = Cleanup(chat[u]).live, !.marks = chat[u].marks]]
  /\ UNCHANGED <<swipes, matches, active_match_id, messages, txs, profile, calls>>

\* fetchMatchDetails (the init effect; it runs again when `user` changes): the
\* session keeps the match row as it is now.  A row the SELECT policy hides
\* (.single() finds no row: matchError), or one the user is not part of, leaves
\* `match` as it was and sets the error.
fetchMatchDetails(u) ==
  /\ chat[u].matchId # NULL
  /\ chat' = IF /\ chat[u].matchId \in MatchIds
                /\ matches_select_policy(u, MatchById(chat[u].matchId))
                /\ u \in Participants(MatchById(chat[u].matchId))
               THEN [chat EXCEPT ![u].status = MatchById(chat[u].matchId).status]
               ELSE [chat EXCEPT ![u].error = TRUE]
  /\ UNCHANGED <<swipes, matches, active_match_id, messages, txs, profile, calls>>

\* The rows in every order.
Orderings(rows) ==
  {[i \in 1..Len(rows) |-> rows[p[i]]] : p \in Permutations(1..Len(rows))}

\* The rows as the table holds them, in no particular order of created_at.
Unordered(rows) == {rows}

\* .order('created_at', { ascending: true }): the results the query may
\* return.  The ORDER BY names created_at alone, so rows with the same
\* created_at come in an order the database is free to choose.
OrderByCreatedAt(rows) ==
  {l \in Orderings(rows) :
     \A i \in 1..Len(l), j \in 1..Len(l) : i <= j => l[i].created_at <= l[j].created_at}

\* select('*').eq('match_id', matchId) under the SELECT policy.
SelectMessages(u, m) ==
  SelectSeq(messages, LAMBDA row : row.match_id = m /\ messages_select_policy(u, row, matches))

\* The ids of the caller's own unread messages.
UnreadOwnIds(u, data) ==
  {data[i].id : i \in {j \in 1..Len(data) :
                         data[j].sender_id = u /\ data[j].read_at = NULL}}

\* data.filter(m => m.sender_id !== user.id && !m.read_at).map(m => m.id)
UnreadIds(u, data) ==
  {data[i].id : i \in {j \in 1..Len(data) :
                         data[j].sender_id # u /\ data[j].read_at = NULL}}

\* fetchMessages (the init effect; it runs again when `user` changes), up to
\* building the read_at update: the list is replaced by the rows of the match
\* in created_at order.
fetchMessages(u) ==
  /\ chat[u].matchId # NULL
  /\ \E data \in OrderByCreatedAt(SelectMessages(u, chat[u].matchId)) :
       LET unreadIds == UnreadIds(u, data)
       IN  chat' = [chat EXCEPT ![u].list = data,
                                ![u].marks = IF unreadIds = {} THEN @ ELSE @ \cup {unreadIds}]
  /\ UNCHANGED <<swipes, matches, active_match_id, messages, txs, profile, calls>>

\* One fetchMessages call between its query and its state write: the rows the
\* query returned.
FetchMessages(u, data) == [op |-> "fetchMessages", user |-> u, data |-> data, pc |-> "set"]

\* fetchMessages, the awaited query (lines 69-73): the rows of the match as
\* they are in the store now.
FetchMessagesSelect(u) ==
  /\ chat[u].matchId # NULL
  /\ \E data \in OrderByCreatedAt(SelectMessages(u, chat[u].matchId)) :
       calls' = calls \cup {FetchMessages(u, data)}
  /\ UNCHANGED <<swipes, matches, active_match_id, messages, txs, profile, chat>>

\* fetchMessages after the await (lines 75-90): setMessages(data || []) replaces
\* the list by what the query returned, and the read_at update is built.
FetchMessagesSet(c) ==
  /\ c.op = "fetchMessages"
  /\ chat[c.user].matchId # NULL
  /\ LET unreadIds == UnreadIds(c.user, c.data)
     IN  chat' = [chat EXCEPT ![c.user].list = c.data,
                              ![c.user].marks = IF unreadIds = {} THEN @ ELSE @ \cup {unreadIds}]
  /\ calls' = calls \ {c}
  /\ UNCHANGED <<swipes, matches, active_match_id, messages, txs, profile>>

\* update({ read_at: new Date().toISOString() }).in('id', unreadIds) reaches
\* the store; `ts` is the client's clock.
MarkRead(u, ids, ts) ==
  /\ ids \in chat[u].marks
  /\ messages' = [i \in DOMAIN messages |->
       IF messages[i].id \in ids /\ messages_update_policy(u, messages[i], matches)
         THEN [messages[i] EXCEPT !.read_at = ts]
         ELSE messages[i]]
  /\ chat' = [chat EXCEPT ![u].marks = @ \ {ids}]
  /\ UNCHANGED <<swipes, matches, active_match_id, txs, profile, calls>>

\* Appends whatever is in the list already.
AppendAlways(list, row) == Append(list, row)

\* prev.some(m => m.id === row.id) ? prev : [...prev, row]
AppendNew(list, row) ==
  IF \E i \in 1..Len(list) : list[i].id = row.id THEN list ELSE Append(list, row)

\* The INSERT handler of the channel: Realtime delivers the inserted row of a
\* subscribed match, possibly more than once.  The read_at update the handler
\* builds for a message of the other user is never awaited, so the request is
\* never sent.
RealtimeInsert(u, row) ==
  /\ row.match_id \in chat[u].live
  /\ messages_select_policy(u, row, matches)
  /\ chat' = [chat EXCEPT ![u].list = AppendNew(@, [row EXCEPT !.read_at = NULL])]
  /\ UNCHANGED <<swipes, matches, active_match_id, messages, txs, profile, calls>>

\* The UPDATE handler of the channel: the changed row replaces its copy.
RealtimeUpdate(u, row) ==
  /\ row.match_id \in chat[u].live
  /\ row.read_at # NULL
  /\ messages_select_policy(u, row, matches)
  /\ chat' = [chat EXCEPT ![u].list =
       [i \in DOMAIN @ |-> IF @[i].id = row.id THEN row ELSE @[i]]]
  /\ UNCHANGED <<swipes, matches, active_match_id, messages, txs, profile, calls>>

\* What sendMessage(content) returns in u's session: the checks of lines 172-179
\* on the hook's own state, then the INSERT under its policy.
SendResult(u, content) ==
  IF chat[u].matchId = NULL \/ Trim(content) = <<>> THEN "invalid"
  ELSE IF chat[u].status # "active" THEN "not_active"
  ELSE IF ~messages_insert_policy(
             u, Message(Len(messages) + 1, chat[u].matchId, u, Trim(content), NULL, 1),
             matches)
    THEN "denied"
  ELSE "sent"

\* sendMessage(content) in u's session: the inserted row (read_at null,
\* created_at the server's NOW()) comes back and is added to the list.
sendMessage(u, content) ==
  /\ chat[u].matchId # NULL
  /\ IF SendResult(u, content) = "sent"
       THEN /\ Len(messages) < MaxMessages
            /\ \E ts \in Times :
                 LET data == Message(Len(messages) + 1, chat[u].matchId, u,
                                     Trim(content), NULL, ts)
                 IN  /\ messages' = Append(messages, data)
                     /\ chat' = [chat EXCEPT ![u].list = AppendNew(@, data)]
       ELSE messages' = messages /\ chat' = chat
  /\ UNCHANGED <<swipes, matches, active_match_id, txs, profile, calls>>

-----------------------------------------------------------------------------
(* The match lifecycle, calls interleaved                                  *)

\* User 1 and user 2 have liked each other, and so have user 1 and user 3: two
\* pending matches; every session has loaded its profile.
Init ==
  /\ swipes = {Like(1, 2), Like(2, 1), Like(1, 3), Like(3, 1)}
  /\ matches = {Match(1, 1, 2, "pending"), Match(2, 1, 3, "pending")}
  /\ active_match_id = [u \in Users |-> NULL]
  /\ messages = <<>>
  /\ txs = {}
  /\ profile = [u \in Users |-> NULL]
  /\ calls = {}
  /\ chat = [u \in Users |-> NoChat]
  /\ hist = <<>>

\* The Matches page starts activateMatch for a card of the user's own list
\* (handleMatchClick), the Chat page endMatch for the match it shows.
Next ==
  \/ \E u \in Users : refreshProfile(u) /\ UNCHANGED hist
  \/ \E u \in Users : \E m \in OwnMatchIds(u) : activateMatch(u, m) /\ UNCHANGED hist
  \/ \E u \in Users : \E m \in OwnMatchIds(u) : endMatch(u, m) /\ UNCHANGED hist
  \/ \E c \in calls : CallStep(c) /\ UNCHANGED hist
  \/ \E c \in calls : Return(c) /\ UNCHANGED hist

Spec == Init /\ [][Next]_vars

-----------------------------------------------------------------------------
(* One call at a time: every click waits for the call before it to return  *)

\* The result the last completed call returned.
Returned(c) ==
  <<[user |-> c.user, op |-> c.op, matchId |-> c.matchId, result |-> c.result]>>

NextSeq ==
  \/ \E u \in Users : refreshProfile(u) /\ UNCHANGED hist
  \/ \E u \in Users : \E m \in OwnMatchIds(u) :
       calls = {} /\ activateMatch(u, m) /\ UNCHANGED hist
  \/ \E u \in Users : \E m \in OwnMatchIds(u) :
       calls = {} /\ endMatch(u, m) /\ UNCHANGED hist
  \/ \E c \in calls : CallStep(c) /\ UNCHANGED hist
  \/ \E c \in calls : Return(c) /\ hist' = Returned(c)

SpecSeq == Init /\ [][NextSeq]_vars

-----------------------------------------------------------------------------
(* Chatting in one match while its participants activate and end it        *)

\* User 1 and user 2 have liked each other: one pending match; user 3 has none.
InitChat ==
  /\ swipes = {Like(1, 2), Like(2, 1)}
  /\ matches = {Match(1, 1, 2, "pending")}
  /\ active_match_id = [u \in Users |-> NULL]
  /\ messages = <<>>
  /\ txs = {}
  /\ profile = [u \in Users |-> NULL]
  /\ calls = {}
  /\ chat = [u \in Users |-> NoChat]
  /\ hist = <<>>

NextChat ==
  \/ \E u \in Users : refreshProfile(u) /\ UNCHANGED hist
  \/ \E u \in Users : \E m \in OwnMatchIds(u) :
       calls = {} /\ activateMatch(u, m) /\ UNCHANGED hist
  \/ \E u \in Users : \E m \in OwnMatchIds(u) :
       calls = {} /\ endMatch(u, m) /\ UNCHANGED hist
  \/ \E c \in calls : CallStep(c) /\ UNCHANGED hist
  \/ \E c \in calls : Return(c) /\ UNCHANGED hist
  \/ \E u \in Users, m \in MatchIds : useChat(u, m) /\ UNCHANGED hist
  \/ \E u \in Users : unmount(u) /\ UNCHANGED hist
  \/ \E u \in Users : fetchMatchDetails(u) /\ UNCHANGED hist
  \/ \E u \in Users, content \in Contents : sendMessage(u, content) /\ UNCHANGED hist

SpecChat == InitChat /\ [][NextChat]_vars

-----------------------------------------------------------------------------
(* The hook functions called with any match id, by any session             *)

\* The ids a call may name: those of the stored matches and one of no match.
AnyMatchId == MatchIds \cup {NewId(MatchIds)}

NextApi ==
  \/ \E u \in Users : refreshProfile(u) /\ UNCHANGED hist
  \/ \E u \in Users : \E m \in AnyMatchId :
       calls = {} /\ activateMatch(u, m) /\ UNCHANGED hist
  \/ \E u \in Users : \E m \in AnyMatchId :
       calls = {} /\ endMatch(u, m) /\ UNCHANGED hist
  \/ \E c \in calls : CallStep(c) /\ UNCHANGED hist
  \/ \E c \in calls : Return(c) /\ UNCHANGED hist

SpecApi == InitChat /\ [][NextApi]_vars

-----------------------------------------------------------------------------
(* What a call finds in the store and what it leaves there                 *)

\* The matches table and the pointers as an activateMatch call finds them.
Before ==
  <<[op |-> "activate", matches |-> matches, active_match_id |-> active_match_id]>>

\* As NextApi, one call at a time; the id may be one of no match, as when the
\* card clicked is of a match that has been deleted since the list was loaded.
NextAtomic ==
  \/ \E u \in Users : refreshProfile(u) /\ UNCHANGED hist
  \/ \E u \in Users : \E m \in AnyMatchId :
       calls = {} /\ activateMatch(u, m) /\ hist' = Before
  \/ \E u \in Users : \E m \in AnyMatchId :
       calls = {} /\ endMatch(u, m) /\ UNCHANGED hist
  \/ \E c \in calls : CallStep(c) /\ UNCHANGED hist
  \/ \E c \in calls : Return(c) /\ UNCHANGED hist

SpecAtomic == InitChat /\ [][NextAtomic]_vars

-----------------------------------------------------------------------------
(* Swiping: every user swipes on the others, transactions overlapping      *)

\* An empty database and three signed-up users.
InitSwipe ==
  /\ swipes = {}
  /\ matches = {}
  /\ active_match_id = [u \in Users |-> NULL]
  /\ messages = <<>>
  /\ txs = {}
  /\ profile = [u \in Users |-> NULL]
  /\ calls = {}
  /\ chat = [u \in Users |-> NoChat]
  /\ hist = <<>>

\* The profiles the hooks have fetched for each user: user 1 is shown users 2
\* and 3, who are each shown user 1.
Offered(u) == IF u = 1 THEN {2, 3} ELSE {1}

\* The hooks offer a user the profiles of the others (fetchProfiles excludes
\* user.id, fetchAdmirers skips it); the list may be stale, so the target may
\* have been swiped on already.
NextSwipe ==
  \/ \E hook \in Hooks, u \in Users, direction \in {"like", "pass"} :
       \E target \in Offered(u) \ {u} :
         swipe(hook, u, target, direction) /\ UNCHANGED hist
  \/ \E t \in txs : SwipeCommit(t) /\ UNCHANGED hist
  \/ \E t \in txs : SwipeSelect(t) /\ UNCHANGED hist
  \/ \E t \in txs : SwipeReturn(t) /\ UNCHANGED hist

SpecSwipe == InitSwipe /\ [][NextSwipe]_vars

-----------------------------------------------------------------------------
(* The swipes table as the store's API exposes it to a signed-in client     *)

\* supabase.from('swipes').insert(...) issued by user u's session with any
\* swiped_id, its own included: the policy constrains swiper_id only.
NextStore ==
  \/ \E u \in Users, direction \in {"like", "pass"} :
       \E target \in Offered(u) \cup {u} :
         swipe("insert", u, target, direction) /\ UNCHANGED hist
  \/ \E t \in txs : SwipeCommit(t) /\ UNCHANGED hist
  \/ \E t \in txs : SwipeReturn(t) /\ UNCHANGED hist

SpecStore == InitSwipe /\ [][NextStore]_vars

-----------------------------------------------------------------------------
(* The messages of a conversation                                          *)

\* User 1 has activated the match with user 2 and reloaded the profile.
InitMsg ==
  /\ swipes = {Like(1, 2), Like(2, 1)}
  /\ matches = {Match(1, 1, 2, "active")}
  /\ active_match_id = [u \in Users |-> IF u = 1 THEN 1 ELSE NULL]
  /\ messages = <<>>
  /\ txs = {}
  /\ profile = [u \in Users |-> IF u = 1 THEN 1 ELSE NULL]
  /\ calls = {}
  /\ chat = [u \in Users |-> NoChat]
  /\ hist = <<>>

\* The sessions that open the Chat page: the two users of the active match.
ChatUsers == {1, 2}

\* The Chat page of these sessions, and Realtime delivering to its channels.
NextMsg ==
  \/ \E u \in ChatUsers : \E m \in OwnMatchIds(u) : useChat(u, m) /\ UNCHANGED hist
  \/ \E u \in ChatUsers : unmount(u) /\ UNCHANGED hist
  \/ \E u \in ChatUsers : fetchMatchDetails(u) /\ UNCHANGED hist
  \/ \E u \in ChatUsers : fetchMessages(u) /\ UNCHANGED hist
  \/ \E u \in ChatUsers : \E ids \in chat[u].marks : \E ts \in Times :
       MarkRead(u, ids, ts) /\ UNCHANGED hist
  \/ \E u \in ChatUsers, content \in Contents : sendMessage(u, content) /\ UNCHANGED hist
  \/ \E u \in ChatUsers : \E i \in DOMAIN messages :
       RealtimeInsert(u, messages[i]) /\ UNCHANGED hist
  \/ \E u \in ChatUsers : \E i \in DOMAIN messages :
       RealtimeUpdate(u, messages[i]) /\ UNCHANGED hist

SpecMsg == InitMsg /\ [][NextMsg]_vars

-----------------------------------------------------------------------------
(* One session moving between two conversations                            *)

\* User 1 has activated the match with user 2 and reloaded the profile; the
\* match with user 3 is pending.
InitSub ==
  /\ swipes = {Like(1, 2), Like(2, 1), Like(1, 3), Like(3, 1)}
  /\ matches = {Match(1, 1, 2, "active"), Match(2, 1, 3, "pending")}
  /\ active_match_id = [u \in Users |-> IF u = 1 THEN 1 ELSE NULL]
  /\ messages = <<>>
  /\ txs = {}
  /\ profile = [u \in Users |-> IF u = 1 THEN 1 ELSE NULL]
  /\ calls = {}
  /\ chat = [u \in Users |-> NoChat]
  /\ hist = <<>>

\* User 1's Chat page goes from one match to the other (the route parameter
\* changes, or the page unmounts and mounts) while Realtime delivers.  Only
\* user 1 writes messages here, so no read_at update is ever built and no
\* UPDATE event arrives.
NextSub ==
  \/ \E m \in OwnMatchIds(1) : useChat(1, m) /\ UNCHANGED hist
  \/ unmount(1) /\ UNCHANGED hist
  \/ fetchMatchDetails(1) /\ UNCHANGED hist
  \/ fetchMessages(1) /\ UNCHANGED hist
  \/ \E content \in Contents : sendMessage(1, content) /\ UNCHANGED hist
  \/ \E i \in DOMAIN messages : RealtimeInsert(1, messages[i]) /\ UNCHANGED hist

SpecSub == InitSub /\ [][NextSub]_vars

-----------------------------------------------------------------------------
(* A chat that stays open while the match is activated                     *)

\* sendMessage returned "This conversation is not active" in a chat that had
\* loaded the match while its stored status was 'pending'.  `again` is what the same send returned when
\* the chat repeated it, `stored` the status the store had then and `idle`
\* whether no activateMatch call was in flight.
Rejected(u, content) ==
  <<[user |-> u, op |-> "send", matchId |-> chat[u].matchId, content |-> content,
     result |-> "not_active", again |-> "none", stored |-> "pending", idle |-> TRUE]>>

\* The send that was rejected is made again from the same chat.
Repeats(u, content) ==
  /\ hist # <<>>
  /\ hist[1].user = u
  /\ hist[1].content = content
  /\ hist[1].matchId = chat[u].matchId

\* The chat of session u is closed or shows another match: a send that was
\* rejected in it is not repeated from it.
Closes(u) == IF hist # <<>> /\ hist[1].user = u THEN <<>> ELSE hist

\* The Chat page of any session on the pending match, the Matches page of its
\* participants activating it (handleMatchClick), one call at a time.
NextOpen ==
  \/ \E u \in Users : refreshProfile(u) /\ UNCHANGED hist
  \/ \E u \in Users : \E m \in OwnMatchIds(u) :
       calls = {} /\ activateMatch(u, m) /\ UNCHANGED hist
  \/ \E c \in calls : CallStep(c) /\ UNCHANGED hist
  \/ \E c \in calls : Return(c) /\ UNCHANGED hist
  \/ \E u \in Users, m \in MatchIds : useChat(u, m) /\ hist' = Closes(u)
  \/ \E u \in Users : unmount(u) /\ hist' = Closes(u)
  \/ \E u \in Users : fetchMatchDetails(u) /\ UNCHANGED hist
  \/ \E u \in Users, content \in Contents :
       /\ sendMessage(u, content)
       /\ hist' = IF /\ SendResult(u, content) = "not_active"
                     /\ chat[u].status = "pending"
                     /\ StoredStatus(chat[u].matchId) = "pending"
                    THEN Rejected(u, content)
                  ELSE IF Repeats(u, content)
                    THEN [hist EXCEPT ![1].again = SendResult(u, content),
                                      ![1].stored = StoredStatus(chat[u].matchId),
                                      ![1].idle = (calls = {})]
                  ELSE hist

SpecOpen == InitChat /\ [][NextOpen]_vars

-----------------------------------------------------------------------------
(* What sendMessage returns and stores, draft by draft                     *)

\* What the input of the Chat page may hold when it is sent.
Drafts == UNION {[1..n -> {" ", "h"}] : n \in 0..MaxDraftLen}

\* The sessions that send: a participant of the match and a user who is none.
SendUsers == {1, 3}

\* A sendMessage call as its caller saw it: the content passed, the result,
\* the stored status of the match and the number of message rows at the call.
Sent(u, content) ==
  <<[user |-> u, op |-> "send", matchId |-> chat[u].matchId, content |-> content,
     result |-> SendResult(u, content),
     stored |-> StoredStatus(chat[u].matchId),
     rows |-> Len(messages)]>>

\* The two sessions open the chat of the active match and send drafts.
NextSend ==
  \/ \E u \in SendUsers, m \in MatchIds : useChat(u, m) /\ UNCHANGED hist
  \/ \E u \in SendUsers : unmount(u) /\ UNCHANGED hist
  \/ \E u \in SendUsers : fetchMatchDetails(u) /\ UNCHANGED hist
  \/ \E u \in SendUsers, content \in Drafts :
       sendMessage(u, content) /\ hist' = Sent(u, content)

SpecSend == InitMsg /\ [][NextSend]_vars

-----------------------------------------------------------------------------
(* The discovery feed while the users swipe                                *)

\* The sessions on the Discover page.
FeedUsers == {1, 2}

\* The Discover page of these users: swipes on the profiles shown, and the
\* feed fetched again (mount, refresh), one fetch per session at a time.
NextFeed ==
  \/ \E u \in FeedUsers, direction \in {"like", "pass"} :
       \E target \in Offered(u) :
         swipe("discovery", u, target, direction) /\ UNCHANGED hist
  \/ \E t \in txs : SwipeCommit(t) /\ UNCHANGED hist
  \/ \E t \in txs : SwipeSelect(t) /\ UNCHANGED hist
  \/ \E t \in txs : SwipeReturn(t) /\ UNCHANGED hist
  \/ \E u \in FeedUsers : Running(u) = {} /\ fetchProfiles(u) /\ UNCHANGED hist
  \/ \E c \in calls : FetchProfilesSelect(c) /\ UNCHANGED hist
  \/ \E c \in calls : Return(c) /\ UNCHANGED hist

SpecFeed == InitSwipe /\ [][NextFeed]_vars

-----------------------------------------------------------------------------
(* The swipes ledger under every request a signed-in client can make       *)

\* Inserts into swipes as in NextStore (swipes has no UPDATE and no DELETE
\* policy, so those requests change nothing), and the DELETE on profiles.
NextLedger ==
  \/ \E u \in Users, direction \in {"like", "pass"} :
       \E target \in Offered(u) \cup {u} :
         swipe("insert", u, target, direction) /\ UNCHANGED hist
  \/ \E t \in txs : SwipeCommit(t) /\ UNCHANGED hist
  \/ \E t \in txs : SwipeReturn(t) /\ UNCHANGED hist
  \/ \E uid \in Users, id \in Users : delete_profile(uid, id) /\ UNCHANGED hist

SpecLedger == InitSwipe /\ [][NextLedger]_vars

-----------------------------------------------------------------------------
(* A chat opened on a match of other users                                 *)

\* The sessions that open the Chat page: user 1, who is in both matches, and
\* user 3, who is in the pending match with user 1 only.
Visitors == {1, 3}

\* The Chat page of these sessions with the id of any match in the route,
\* while user 1 writes in the active match.  The app links to a chat from the
\* Matches page only, so the route of a match the user is not part of is
\* reached by loading its URL: the hook always mounts anew.  Every stored
\* message is user 1's, so no read_at update is built and no UPDATE event
\* arrives.
NextVisit ==
  \/ \E u \in Visitors, m \in MatchIds :
       chat[u].matchId = NULL /\ useChat(u, m) /\ UNCHANGED hist
  \/ \E u \in Visitors : unmount(u) /\ UNCHANGED hist
  \/ \E u \in Visitors : fetchMatchDetails(u) /\ UNCHANGED hist
  \/ \E u \in Visitors : fetchMessages(u) /\ UNCHANGED hist
  \/ \E u \in Visitors, content \in Contents : sendMessage(u, content) /\ UNCHANGED hist
  \/ \E u \in Visitors : \E i \in DOMAIN messages :
       RealtimeInsert(u, messages[i]) /\ UNCHANGED hist

SpecVisit == InitSub /\ [][NextVisit]_vars

-----------------------------------------------------------------------------
(* The match list of a session while the match changes status              *)

\* The activateMatch / endMatch calls in flight.
Handling == {c \in calls : c.op \in {"activate", "end"}}

\* User 1's Matches page is mounted and subscribed while the two participants
\* activate and end the match, one call at a time.
NextList ==
  \/ useMatches(1)
  \/ \E u \in Users : \E m \in OwnMatchIds(u) :
       Handling = {} /\ activateMatch(u, m) /\ UNCHANGED hist
  \/ \E u \in Users : \E m \in OwnMatchIds(u) :
       Handling = {} /\ endMatch(u, m) /\ UNCHANGED hist
  \/ \E c \in calls : CallStepNotified(c)
  \/ \E c \in calls : Return(c) /\ UNCHANGED hist
  \/ FetchMatchesSelect
  \/ \E c \in calls : FetchMatchesSet(c)

SpecList == InitChat /\ [][NextList]_vars

-----------------------------------------------------------------------------
(* The initial fetch of a conversation beside Realtime                     *)

\* What is kept of user u's Chat page: the ids of the messages whose INSERT
\* event the channel has delivered, and whether the initial fetch has written
\* its rows.
Opened(u, delivered, fetched) ==
  <<[op |-> "useChat", user |-> u, delivered |-> delivered, fetched |-> fetched]>>

\* User 1's Chat page mounts on the active match and stays mounted: the
\* subscription effect subscribes, the init effect runs fetchMessages once, and
\* Realtime delivers meanwhile.  Both users write messages.
NextInitial ==
  \/ \E u \in ChatUsers : \E m \in OwnMatchIds(u) :
       /\ chat[u].matchId = NULL
       /\ useChat(u, m)
       /\ hist' = IF u = 1 THEN Opened(1, {}, FALSE) ELSE hist
  \/ \E u \in ChatUsers : fetchMatchDetails(u) /\ UNCHANGED hist
  \/ /\ hist # <<>>
     /\ ~hist[1].fetched
     /\ calls = {}
     /\ FetchMessagesSelect(1)
     /\ UNCHANGED hist
  \/ \E c \in calls :
       /\ FetchMessagesSet(c)
       /\ hist' = [hist EXCEPT ![1].fetched = TRUE]
  \/ \E u \in ChatUsers, content \in Contents : sendMessage(u, content) /\ UNCHANGED hist
  \/ \E i \in DOMAIN messages :
       /\ RealtimeInsert(1, messages[i])
       /\ hist' = [hist EXCEPT ![1].delivered = @ \cup {messages[i].id}]

SpecInitial == InitMsg /\ [][NextInitial]_vars

-----------------------------------------------------------------------------
(* Read receipts of messages that arrive over the channel                  *)

\* A read_at update that user 1's session has sent reaches the store.
ReadSent ==
  \E ids \in chat[1].marks : \E ts \in Times : MarkRead(1, ids, ts) /\ UNCHANGED hist

\* User 1's Chat page mounts on the active match, fetches once and stays
\* mounted; what arrives afterwards arrives over the channel only.
NextRead ==
  \/ \E u \in ChatUsers : \E m \in OwnMatchIds(u) :
       /\ chat[u].matchId = NULL
       /\ useChat(u, m)
       /\ hist' = IF u = 1 THEN Opened(1, {}, FALSE) ELSE hist
  \/ \E u \in ChatUsers : fetchMatchDetails(u) /\ UNCHANGED hist
  \/ /\ hist # <<>>
     /\ ~hist[1].fetched
     /\ fetchMessages(1)
     /\ hist' = [hist EXCEPT ![1].fetched = TRUE]
  \/ ReadSent
  \/ \E u \in ChatUsers, content \in Contents : sendMessage(u, content) /\ UNCHANGED hist
  \/ \E i \in DOMAIN messages :
       /\ hist # <<>>
       /\ hist[1].fetched
       /\ RealtimeInsert(1, messages[i])
       /\ hist' = [hist EXCEPT ![1].delivered = @ \cup {messages[i].id}]
  \/ \E i \in DOMAIN messages : RealtimeUpdate(1, messages[i]) /\ UNCHANGED hist

\* Every request that was sent reaches the store, and Realtime delivers every
\* event to a subscribed channel.
SpecRead ==
  /\ InitMsg
  /\ [][NextRead]_vars
  /\ WF_vars(NextRead)
  /\ WF_vars(ReadSent)

-----------------------------------------------------------------------------
(* The current index of a swipe hook                                       *)

\* The users hook `hook` lists for u when it fetches: useDiscovery everyone
\* but u and those u has swiped on, useLikes those of them who liked u.
Listed(hook, u) ==
  {v \in Users \ ({u} \cup SwipedIds(u)) : hook = "likes" => Like(v, u) \in swipes}

\* The orders a fetched list may come in.
Lists(S) ==
  {l \in [1..Cardinality(S) -> S] : \A i, j \in 1..Cardinality(S) : l[i] = l[j] => i = j}

\* User 1 opens the Discover or the Likes page once and swipes on the profile
\* displayed, possibly again before the page has rendered the new index; users
\* 2 and 3 swipe on user 1.
NextIndex ==
  \/ \E hook \in Hooks : \E list \in Lists(Listed(hook, 1)) :
       /\ hist = <<>>
       /\ hist' = Deck(hook, 1, list, 0, 0)
       /\ UNCHANGED vars_but_hist
  \/ /\ hist # <<>>
     /\ hist[1].rendered # hist[1].currentIndex
     /\ hist' = [hist EXCEPT ![1].rendered = hist[1].currentIndex]
     /\ UNCHANGED vars_but_hist
  \/ \E direction \in {"like", "pass"} :
       /\ hist # <<>>
       /\ hist[1].rendered < Len(hist[1].list)
       /\ swipe(hist[1].hook, 1, hist[1].list[hist[1].rendered + 1], direction)
       /\ UNCHANGED hist
  \/ \E u \in Users \ {1}, direction \in {"like", "pass"} :
       swipe("discovery", u, 1, direction) /\ UNCHANGED hist
  \/ \E t \in txs : SwipeCommit(t) /\ UNCHANGED hist
  \/ \E t \in txs : SwipeSelect(t) /\ UNCHANGED hist
  \/ \E t \in txs :
       /\ SwipeReturn(t)
       /\ hist' = IF t.row.swiper_id = 1
                    THEN [hist EXCEPT ![1].currentIndex = Advance(@, t)]
                    ELSE hist

SpecIndex == InitSwipe /\ [][NextIndex]_vars

-----------------------------------------------------------------------------
(* The match of a pair over its whole life                                 *)

\* The pairs for which a match row has been created so far.
Matched == IF hist = <<>> THEN {} ELSE hist[1].pairs

\* The two users whose sessions act.
Pair == {1, 2}

\* The two users swipe on each other through the hooks, end their match, and
\* delete their own profile rows (the session's next load inserts the row
\* again).
NextPair ==
  \/ \E hook \in Hooks, u \in Pair, direction \in {"like", "pass"} :
       \E target \in Pair \ {u} :
         swipe(hook, u, target, direction) /\ UNCHANGED hist
  \/ \E t \in txs :
       /\ SwipeCommit(t)
       /\ hist' = IF t.match = NoRow THEN hist
                    ELSE <<[op |-> "matched", pairs |-> Matched \cup {Participants(t.match)}]>>
  \/ \E t \in txs : SwipeSelect(t) /\ UNCHANGED hist
  \/ \E t \in txs : SwipeReturn(t) /\ UNCHANGED hist
  \/ \E u \in Pair : \E m \in OwnMatchIds(u) :
       calls = {} /\ endMatch(u, m) /\ UNCHANGED hist
  \/ \E c \in calls : EndUpdate(c) /\ UNCHANGED hist
  \/ \E c \in calls : Return(c) /\ UNCHANGED hist
  \/ \E uid \in Pair, id \in Pair : delete_profile(uid, id) /\ UNCHANGED hist

SpecPair == InitSwipe /\ [][NextPair]_vars

-----------------------------------------------------------------------------
(* Properties                                                              *)

IsParticipant(u, id) == id \in MatchIds /\ u \in Participants(MatchById(id))

ActiveMatchesOf(u) == {m \in matches : u \in Participants(m) /\ m.status = "active"}

\* C1: one active conversation at a time.  In every reachable state every user
\* takes part in at most one match whose status is 'active' (the matches that
\* accept the user's messages), whatever activateMatch / endMatch calls the user
\* and the counterparts have made.
C1_OneActiveConversation ==
  \A u \in Users : Cardinality(ActiveMatchesOf(u)) <= 1

MatchesOfPair(a, b) == {m \in matches : Participants(m) = {a, b}}

\* C2: once A's like of B and B's like of A are both recorded, in either order
\* or by two swipe inserts whose transactions overlap, exactly one match row
\* exists for the pair {A, B}.
C2_ExactlyOneMatch ==
  \A a \in Users, b \in Users :
    (a # b /\ Like(a, b) \in swipes /\ Like(b, a) \in swipes)
      => Cardinality(MatchesOfPair(a, b)) = 1

\* C3: in every reachable state every match row has user1_id < user2_id, and no
\* two match rows have the same unordered pair of users, after any swipes.
C3_CanonicalPairs ==
  /\ \A m \in matches : m.user1_id < m.user2_id
  /\ \A m1 \in matches, m2 \in matches :
       Participants(m1) = Participants(m2) => m1 = m2

\* Mutual likes have created the matches of two different pairs.
C3_Witness ==
  /\ Cardinality(matches) >= 2
  /\ \E m \in matches : Like(m.user2_id, m.user1_id) \in swipes

\* C4: a user with the matches M1 # M2 calls activateMatch(M1) and, once that
\* has returned, activateMatch(M2), both succeeding, in one session: then M1 is
\* 'pending', M2 is 'active' and the user's stored active_match_id is M2.
C4_SwitchActiveMatch ==
  \A c \in calls :
    ( /\ c.pc = "done" /\ c.op = "activate" /\ c.result = "success"
      /\ hist # <<>>
      /\ hist[1].user = c.user /\ hist[1].op = "activate"
      /\ hist[1].result = "success"
      /\ hist[1].matchId # c.matchId
      /\ IsParticipant(c.user, c.matchId)
      /\ IsParticipant(c.user, hist[1].matchId) )
    => /\ StoredStatus(hist[1].matchId) = "pending"
       /\ StoredStatus(c.matchId) = "active"
       /\ active_match_id[c.user] = c.matchId

\* C5: sendMessage by user U (with content that is not blank) persists a
\* message if and only if, at the moment of the call, the stored status of the
\* match is 'active' and U is one of its participants; a send to a match whose
\* stored status is 'pending' or 'ended' returns the not-active error and
\* appends nothing.
C5_SendGating ==
  [][\A u \in Users, content \in Contents :
       (Trim(content) # <<>> /\ sendMessage(u, content))
         => /\ (messages' # messages)
                 <=> (/\ StoredStatus(chat[u].matchId) = "active"
                      /\ IsParticipant(u, chat[u].matchId))
            /\ StoredStatus(chat[u].matchId) \in {"pending", "ended"}
                 => /\ SendResult(u, content) = "not_active"
                    /\ messages' = messages]_vars

\* C6: once 'ended' is committed in the store for a match, no later sendMessage
\* of any session, one that loaded the match while it was 'active' included,
\* adds a message row for that match.
C6_NoSendAfterEnded ==
  [][\A u \in Users, content \in Contents :
       (StoredStatus(chat[u].matchId) = "ended" /\ sendMessage(u, content))
         => messages' = messages]_vars

\* C7: 'ended' is terminal.  Once a match is 'ended' no step of any
\* activateMatch / endMatch call (activating that match, or demoting it as the
\* caller's previously active match) makes it 'pending' or 'active' again.
C7_EndedTerminal ==
  [][\A m \in matches : m.status = "ended"
        => \A n \in matches' : n.id = m.id => n.status = "ended"]_vars

\* C8: one user runs activateMatch(M1) and activateMatch(M2) concurrently; once
\* both have completed, the user's active_match_id points at a match whose
\* status is 'active', and M1 and M2 are not both 'active'.
C8_ConcurrentActivate ==
  \A c1 \in calls, c2 \in calls :
    ( /\ calls = {c1, c2}
      /\ c1.user = c2.user /\ c1.matchId # c2.matchId
      /\ c1.op = "activate" /\ c2.op = "activate"
      /\ c1.pc = "done" /\ c2.pc = "done"
      /\ c1.overlap /\ c2.overlap )
    => /\ StoredStatus(active_match_id[c1.user]) = "active"
       /\ ~(StoredStatus(c1.matchId) = "active" /\ StoredStatus(c2.matchId) = "active")

\* C9: in every reachable state, the match a user's non-null active_match_id
\* refers to has status 'active'; the pointer does not keep referring to a
\* match the counterpart has ended or demoted.
C9_PointerIsActive ==
  \A u \in Users :
    active_match_id[u] # NULL => StoredStatus(active_match_id[u]) = "active"

\* C10: activateMatch(M) called by a user who is not a participant of M returns
\* an error, not success, and leaves M's status unchanged.
C10_NonParticipantActivate ==
  [][\A c \in calls :
       ( /\ c.op = "activate"
         /\ c.matchId \in MatchIds
         /\ ~IsParticipant(c.user, c.matchId)
         /\ CallStep(c) )
       => /\ \A n \in matches' : n.id = c.matchId => n.status = StoredStatus(c.matchId)
          /\ \A d \in calls' : d.pc = "done" => d.result = "error"]_vars

\* C11: when an endMatch(M) call by a participant U returns success, M's status
\* is 'ended', and if U's stored active_match_id was M before the call (also
\* when an earlier activateMatch of the same session set it), the stored
\* active_match_id of U is null afterwards.
C11_EndClearsPointer ==
  [][\A c \in calls :
       ( /\ c.op = "end"
         /\ IsParticipant(c.user, c.matchId)
         /\ CallStep(c)
         /\ \E d \in calls' : d.pc = "done" /\ d.result = "success" )
       => /\ \A n \in matches' : n.id = c.matchId => n.status = "ended"
          /\ active_match_id[c.user] = c.matchId
               => active_match_id'[c.user] = NULL]_vars

SamePair(s, t) == s.swiper_id = t.swiper_id /\ s.swiped_id = t.swiped_id

C13_MatchNeedsBothLikes ==
  [][\A m \in matches' \ matches :
       /\ m.status = "pending"
       /\ Like(m.user1_id, m.user2_id) \in swipes'
       /\ Like(m.user2_id, m.user1_id) \in swipes']_vars

\* A reciprocal like has made a match, while a pass and an unanswered like are
\* recorded without one.
C13_Witness ==
  /\ matches # {}
  /\ \E s \in swipes : s.direction = "pass"
  /\ \E a \in Users, b \in Users :
       /\ Like(a, b) \in swipes
       /\ Like(b, a) \notin swipes
       /\ MatchesOfPair(a, b) = {}

ReportedMatch == {t \in txs : t.pc = "done" /\ t.matched}

\* C14: a swipe call returns matched = true only if its own insert inserted the
\* match row; so a match row of the pair exists then, and of all the swipe
\* calls of a pair at most one returns matched = true.
C14_MatchedOnce ==
  \A t \in ReportedMatch :
    /\ t.match # NoRow
    /\ MatchesOfPair(t.row.swiper_id, t.row.swiped_id) # {}
    /\ \A t2 \in ReportedMatch :
         {t2.row.swiper_id, t2.row.swiped_id} = {t.row.swiper_id, t.row.swiped_id}
           => t2 = t

\* C15: a swipe whose target is the swiper is rejected with an error, and no
\* swipe row has swiper_id = swiped_id.
C15_NoSelfSwipe ==
  /\ \A s \in swipes : s.swiper_id # s.swiped_id
  /\ \A t \in txs : (t.pc = "done" /\ t.row.swiper_id = t.row.swiped_id) => t.error

\* C16: when user U's mark-read step (fetchMessages) on a match completes,
\* every message of the other participant that was in the fetched list has a
\* non-null read_at, and U's client has changed the read_at of none of U's own
\* messages.  Step by step: each fetched message of the other participant is
\* read already or is in the update the fetch builds; that update gives each of
\* its messages a read_at; neither step touches a message U wrote.
C16_MarkRead ==
  [][\A u \in Users :
       /\ fetchMessages(u)
            => /\ messages' = messages
               /\ \A i \in 1..Len(chat'[u].list) :
                    chat'[u].list[i].sender_id # u
                      => \/ chat'[u].list[i].read_at # NULL
                         \/ \E ids \in chat'[u].marks : chat'[u].list[i].id \in ids
       /\ \A ids \in chat[u].marks, ts \in Times :
            MarkRead(u, ids, ts)
              => \A i \in DOMAIN messages :
                   /\ messages'[i].id \in ids => messages'[i].read_at # NULL
                   /\ messages[i].sender_id = u => messages'[i] = messages[i]]_vars

\* A user has fetched a conversation with a message of each participant and the
\* update has gone through: the other's message is read, the own one is not.
C16_Witness ==
  \E u \in Users :
    /\ Len(chat[u].list) = 2
    /\ chat[u].marks = {}
    /\ \E i \in DOMAIN messages, j \in DOMAIN messages :
         /\ messages[i].sender_id # u /\ messages[i].read_at # NULL
         /\ messages[j].sender_id = u /\ messages[j].read_at = NULL

\* C17: the read_at of a message only ever changes from null to a timestamp
\* (never back to null, never from one timestamp to another), so that marking
\* read again changes nothing.
C17_ReadAtOnce ==
  [][\A i \in DOMAIN messages :
       messages'[i].read_at # messages[i].read_at
         => messages[i].read_at = NULL /\ messages'[i].read_at # NULL]_vars

\* C18: the list fetchMessages returns for a match is non-decreasing in
\* created_at.
C18_FetchOrdered ==
  [][\A u \in Users :
       fetchMessages(u)
         => \A i \in 1..Len(chat'[u].list), j \in 1..Len(chat'[u].list) :
              i <= j => chat'[u].list[i].created_at <= chat'[u].list[j].created_at]_vars

\* A list that starts with the message inserted second, which has the earlier
\* created_at.
C18_Witness ==
  \E u \in Users :
    /\ Len(chat[u].list) = 2
    /\ chat[u].list[1].id = 2
    /\ chat[u].list[1].created_at < chat[u].list[2].created_at

C20_OneSubscription ==
  [][\A u \in Users :
       /\ Cardinality(chat'[u].live) <= 1
       /\ chat'[u].live \subseteq {chat'[u].matchId}
       /\ \A i \in DOMAIN messages :
            (RealtimeInsert(u, messages[i]) /\ chat'[u].list # chat[u].list)
              => messages[i].match_id = chat[u].matchId]_vars

\* The hook has gone from match 1 to match 2 with the list it had: only the
\* channel of match 2 is subscribed.
C20_Witness ==
  /\ chat[1].matchId = 2
  /\ chat[1].live = {2}
  /\ \E i \in 1..Len(chat[1].list) : chat[1].list[i].match_id = 1

\* C21: a participant's send to match M was rejected because M was 'pending';
\* once an activateMatch(M) of either participant has committed (M is 'active'
\* in the store and no call is in flight), the same send from the sender's
\* chat, open since the rejection, succeeds.
C21_SendAfterActivate ==
  ( /\ hist # <<>>
    /\ hist[1].again # "none"
    /\ hist[1].stored = "active"
    /\ hist[1].idle )
  => hist[1].again = "sent"

\* C22: a sendMessage by a user who is not a participant of the match never
\* persists a message, and it is rejected with an error other than the one
\* returned for sending to a match that is not active.
C22_NonParticipantSend ==
  /\ \A i \in DOMAIN messages : IsParticipant(messages[i].sender_id, messages[i].match_id)
  /\ ( /\ hist # <<>>
       /\ hist[1].matchId \in MatchIds
       /\ Trim(hist[1].content) # <<>>
       /\ ~IsParticipant(hist[1].user, hist[1].matchId) )
     => hist[1].result \notin {"sent", "not_active"}

\* Nothing but blanks (the empty string included).
Blank(str) == \A i \in DOMAIN str : str[i] = " "

\* c is str without the blanks at its two ends.
TrimOf(str, c) ==
  /\ c # <<>>
  /\ c[1] # " "
  /\ c[Len(c)] # " "
  /\ \E a \in 0..Len(str) :
       /\ a + Len(c) <= Len(str)
       /\ SubSeq(str, a + 1, a + Len(c)) = c
       /\ Blank(SubSeq(str, 1, a))
       /\ Blank(SubSeq(str, a + Len(c) + 1, Len(str)))

\* C23: sendMessage with content that is empty after trimming returns an error
\* and appends no message; every stored message's content is non-empty and is
\* the input without its leading and trailing blanks.
C23_TrimmedContent ==
  /\ \A i \in DOMAIN messages : messages[i].content # <<>>
  /\ hist # <<>>
       => /\ Blank(hist[1].content)
               => hist[1].result = "invalid" /\ Len(messages) = hist[1].rows
          /\ Len(messages) # hist[1].rows
               => /\ Len(messages) = hist[1].rows + 1
                  /\ TrimOf(hist[1].content, messages[Len(messages)].content)

\* A draft with a blank on each side has been sent and stored without them.
C23_Witness ==
  /\ hist # <<>>
  /\ hist[1].result = "sent"
  /\ hist[1].content = <<" ", "h", " ">>
  /\ messages # <<>>
  /\ messages[Len(messages)].content = <<"h">>

\* C24: the discovery feed fetchProfiles returns for user U never contains U
\* itself nor any user U had swiped on, with a like or with a pass, when the
\* fetch was made.
C24_FeedExcludesSwiped ==
  \A c \in calls :
    (c.op = "fetchProfiles" /\ c.pc = "done")
      => /\ c.user \notin c.profilesData
         /\ \A s \in c.before : s.swiped_id \notin c.profilesData

\* User 1 had passed on one of the two profiles offered and liked neither: the
\* feed is the other profile alone.
C24_Witness ==
  \E c \in calls :
    /\ c.op = "fetchProfiles" /\ c.pc = "done" /\ c.user = 1
    /\ \E s \in c.before : s.direction = "pass"
    /\ \A s \in c.before : s.direction = "pass"
    /\ Cardinality(c.profilesData) = 1

\* C25: the swipe ledger is append-only.  No request a client can make changes
\* or removes a recorded swipe row: the set of swipes only grows, and every row
\* keeps its swiper, target and direction.
C25_AppendOnly ==
  [][\A s \in swipes :
       \E x \in swipes' : /\ x.swiper_id = s.swiper_id
                           /\ x.swiped_id = s.swiped_id
                           /\ x.direction = s.direction]_vars

C27_ActivateAllOrNothing ==
  \A c \in calls :
    (c.op = "activate" /\ c.pc = "done" /\ c.result = "error")
      => /\ hist # <<>>
         /\ matches = hist[1].matches
         /\ active_match_id = hist[1].active_match_id

\* C28: no step of an activateMatch or endMatch call of user U changes the
\* active_match_id of a user other than U.
C28_OwnPointerOnly ==
  [][\A c \in calls :
       CallStep(c)
         => \A v \in Users \ {c.user} : active_match_id'[v] = active_match_id[v]]_vars

\* Users 1 and 3 have each activated a match of theirs and user 2 has ended
\* the match with user 1: both pointers are as their owners set them.
C28_Witness ==
  /\ active_match_id[1] = 1
  /\ active_match_id[3] = 2
  /\ StoredStatus(1) = "ended"

\* C29: once the read_at of a message is non-null its value never changes
\* again, also when the reader's mark-read step runs more than once at the
\* same time (two overlapping fetchMessages calls that both saw the message
\* unread).
C29_ReadAtStable ==
  [][\A i \in DOMAIN messages :
       messages[i].read_at # NULL
         => i \in DOMAIN messages' /\ messages'[i].read_at = messages[i].read_at]_vars

\* C30: two messages of one match with the same created_at are listed by
\* fetchMessages in the order they were inserted (ids grow with insertion).
C30_TiesInInsertionOrder ==
  [][\A u \in Users :
       fetchMessages(u)
         => \A i \in 1..Len(chat'[u].list), j \in 1..Len(chat'[u].list) :
              ( /\ i < j
                /\ chat'[u].list[i].created_at = chat'[u].list[j].created_at )
              => chat'[u].list[i].id < chat'[u].list[j].id]_vars

\* C31: while a user's match list is subscribed, once every fetchMatches call
\* triggered by the status changes of the user's matches has completed
\* (several may overlap), the local list shows the latest committed status of
\* every match of the user.
C31_ListShowsLatest ==
  ( /\ hist # <<>>
    /\ hist[1].triggered = 0
    /\ Fetching = {} )
  => hist[1].list = OwnRows(hist[1].user)

\* C32: while the chat hook of a match is mounted and subscribed, once the
\* initial fetch has completed every message whose INSERT event has been
\* delivered is in the local list, however the fetch's query, its state write
\* and the deliveries interleave.
C32_DeliveredStaysListed ==
  (hist # <<>> /\ hist[1].fetched)
  => \A id \in hist[1].delivered :
       \E i \in 1..Len(chat[1].list) : chat[1].list[i].id = id

\* C33: when the subscribed client of user 1 has received the INSERT event of
\* a message the other participant wrote, the stored message's read_at
\* eventually becomes non-null, without user 1 fetching again.
C33_DeliveredIsRead ==
  \A id \in 1..MaxMessages :
    ( /\ hist # <<>>
      /\ id \in hist[1].delivered
      /\ messages[id].sender_id # 1 )
    ~> ( id \in DOMAIN messages /\ messages[id].read_at # NULL )

\* The swipe calls of user 1 that have recorded their row and not returned yet.
Recording == {t \in txs : t.row.swiper_id = 1 /\ t.pc \in {"select", "done"} /\ ~t.error}

\* C34: in the swipe hooks the current index advances by exactly one for each
\* swipe that was recorded and stays when the swipe fails: the index, plus the
\* recorded swipes about to advance it, is the number of the user's swipe rows;
\* two calls on the same displayed profile record one row and advance by one.
C34_IndexCountsSwipes ==
  hist # <<>> =>
    hist[1].currentIndex + Cardinality(Recording)
      = Cardinality({s \in swipes : s.swiper_id = 1})

\* Two calls on the first profile displayed, before the page rendered again:
\* the first has been recorded and has advanced the index, the second failed.
C34_Witness ==
  /\ hist # <<>>
  /\ hist[1].rendered = 0
  /\ hist[1].currentIndex = 1
  /\ Cardinality({s \in swipes : s.swiper_id = 1}) = 1
  /\ \E t \in txs : /\ t.error
                    /\ t.pc = "done"
                    /\ t.row.swiper_id = 1
                    /\ t.row.swiped_id = hist[1].list[1]

\* C35: in every reachable state a user's non-null active_match_id is the id
\* of a stored match, and the user is one of its two participants.
C35_PointerAtOwnMatch ==
  \A u \in Users :
    active_match_id[u] # NULL =>
      /\ active_match_id[u] \in MatchIds
      /\ u \in Participants(MatchById(active_match_id[u]))

\* C36: match resolution never alters an existing match.  A step of a swipe
\* leaves every stored match row as it is (status, participants, id), and a
\* match row is created only for a pair that has never had one, whatever has
\* become of the earlier row.
C36_MatchOncePerPair ==
  [][ /\ (txs' # txs => \A m \in matches : m \in matches')
      /\ \A m \in matches' \ matches :
           \/ Participants(m) \notin Matched
           \/ \E x \in matches : x.id = m.id ]_vars

====
